---- MODULE Spec2Model ----
(***************************************************************************)
(* A model of spacy_transformers: the Transformer pipeline component with  *)
(* its TransformerListener layers (pipeline.py) and the HFShim             *)
(* serialisation of a Hugging Face model (layers/hf_shim.py).              *)
(*                                                                         *)
(* Python's None is the empty tuple <<>>, a present value x is <<x>>.      *)
(***************************************************************************)
EXTENDS Integers, Sequences, FiniteSets, TLC

\* ------------------------------------------------------------------ bounds
NumListeners == 3   \* TransformerListener objects that may be constructed
MaxListeners == 3   \* length of Transformer.listeners
MaxDetached == 1    \* listeners constructed and not yet attached, at a time
NumDocs == 2        \* Doc objects of the stream
MaxBatch == 2       \* documents per batch
MaxCalls == 2       \* encoder forward passes (predict and update together)
MaxInvokes == 3     \* acceptor invocations, all update steps together
MaxGrad == 1        \* distinct gradients one listener may send
NTensors == 2       \* tensors per TransformerData

\* ------------------------------------------------------------ Python values
None == <<>>
Some(x) == <<x>>
Val(o) == o[1]

\* Transformer.name, set by @component("transformer")
Name == "transformer"

ListenerIds == 1..NumListeners
DocIds == 1..NumDocs

\* token.orth of every token of a Doc: Docs 1 and 2 hold the same tokens in a
\* different order, Doc 3 holds one token whose orth is their sum.
Tokens(d) ==
  IF d = 1 THEN <<1, 2>> ELSE IF d = 2 THEN <<2, 1>> ELSE <<d>>

MinOf2(a, b) == IF a <= b THEN a ELSE b
MaxOf2(a, b) == IF a >= b THEN a ELSE b

\* The batches the driver passes: the empty batch and every minibatch of at
\* most MaxBatch consecutive documents of the stream Doc 1, Doc 2, ...
Batches ==
  {<<>>} \cup UNION {{[i \in 1..n |-> first + i - 1] :
                        n \in 1..MinOf2(MaxBatch, NumDocs - first + 1)} :
                     first \in DocIds}

RECURSIVE SumSeq(_)
SumSeq(q) == IF q = <<>> THEN 0 ELSE Head(q) + SumSeq(Tail(q))

Range(q) == {q[i] : i \in 1..Len(q)}

\* a fingerprint that weighs every token by its position in the batch
get_batch_id_positional(inputs) ==
  LET toks == [i \in 1..Len(inputs) |-> Tokens(inputs[i])]
      weighted(i) == SumSeq([p \in 1..Len(toks[i]) |-> (2 * i + p) * toks[i][p]])
  IN SumSeq([i \in 1..Len(inputs) |-> weighted(i)])

\* TransformerListener.get_batch_id: sum(sum(token.orth for token in doc) for doc in inputs)
get_batch_id(inputs) ==
  SumSeq([i \in 1..Len(inputs) |-> SumSeq(Tokens(inputs[i]))])

\* ------------------------------------------------------- Tensor batch model
\* One TransformerData: the slice of forward pass `pass` for Doc `doc`
\* (doc = 0: the empty TransformerData).
TransformerData(pass, doc) == [pass |-> pass, doc |-> doc]
EmptyData == TransformerData(0, 0)

\* wordpieces of a document slice: a token may split into several wordpieces,
\* so the documents of a batch differ in length and the batch is padded
Wp(doc) == IF doc = 0 THEN 0 ELSE Len(Tokens(doc)) + (doc - 1)

\* FullTransformerBatch.doc_data of forward pass `pass` over `docs`
doc_data(pass, docs) ==
  IF docs = <<>> THEN <<TransformerData(pass, 0)>>
  ELSE [i \in 1..Len(docs) |-> TransformerData(pass, docs[i])]

\* The gradient a downstream layer sends back for outputs `outs`: one list of
\* NTensors arrays per TransformerData, each of Wp rows (width 1).
Gradient(outs, v) ==
  [i \in 1..Len(outs) |->
     [j \in 1..NTensors |-> [p \in 1..Wp(outs[i].doc) |-> v * p + (j - 1)]]]

\* an accumulation that overwrites what it holds
AddArray_overwrites(a, b) == b

\* d_tensors[i][j] += d_tensor
AddArray(a, b) == [p \in 1..Len(a) |-> a[p] + b[p]]
SumSquares(a) == SumSeq([p \in 1..Len(a) |-> a[p] * a[p]])

MaxOf(S) == IF S = {} THEN 0 ELSE CHOOSE x \in S : \A y \in S : y <= x

\* FullTransformerBatch.unsplit_by_doc: scatter the per-document arrays back
\* into the padded batch layout (tensor, document, row), zero on padding.
unsplit_by_doc(outs, d) ==
  LET rows == MaxOf({Wp(outs[i].doc) : i \in 1..Len(outs)})
  IN [j \in 1..NTensors |->
        [i \in 1..Len(outs) |->
           [p \in 1..rows |->
              IF i <= Len(d) /\ p <= Len(d[i][j]) THEN d[i][j][p] ELSE 0]]]

\* ------------------------------------------------------------------- state
VARIABLES
  listeners,      \* Transformer.listeners: list of listener ids
  made,           \* the TransformerListener objects constructed so far
  l_batch_id,     \* TransformerListener._batch_id
  l_outputs,      \* TransformerListener._outputs
  l_backprop,     \* TransformerListener._backprop
  trf_data,       \* doc._.trf_data of every Doc
  calls,          \* forward passes of the encoder so far
  steps,          \* the closure state of every update call, by forward pass
  losses,         \* the caller's losses dict entry losses["transformer"]
  ret,            \* outcome of the last call of the driver
  last_call,      \* the last forward pass of the encoder: who ran it, on which
                  \* documents, for which listeners
  held,           \* the gradient callback the driver holds: the last one a
                  \* training forward of a listener returned
  hfmodel,        \* HFShim._hfmodel of every shim
  pt_model,       \* HFShim._model of every shim (PyTorchShim)
  wire,           \* the bytes the last to_bytes returned, as stored since
  wire_src,       \* the HFObjects those bytes were made from
  shim_ret,       \* outcome of the last call of a shim
  split_full,     \* the trf_full the split-trf-batch layer was last run on
  split_ret       \* outcome of the last call of that layer or its callback

shim_vars == <<hfmodel, pt_model, wire, wire_src, shim_ret>>
split_vars == <<split_full, split_ret>>
pipe_vars == <<listeners, made, l_batch_id, l_outputs, l_backprop, trf_data,
               calls, steps, losses, ret, last_call, held>>

\* The callbacks update hands out (closures over the step's d_tensors), and
\* the lambda of the listener's prediction path.
accumulate_gradient_fn(s) == [kind |-> "accumulate_gradient", step |-> s]
backprop_fn(s) == [kind |-> "backprop", step |-> s]
identity_fn == [kind |-> "lambda", step |-> 0]

NoRet == [op |-> "none", status |-> "ok", error |-> "", l |-> 0, docs |-> <<>>,
          is_train |-> FALSE, outputs |-> None, backprop |-> None]

\* Transformer.__init__ and no listener constructed yet.
PipeInit ==
  /\ listeners = <<>>
  /\ made = {}
  /\ l_batch_id = [l \in ListenerIds |-> None]
  /\ l_outputs = [l \in ListenerIds |-> None]
  /\ l_backprop = [l \in ListenerIds |-> None]
  /\ trf_data = [d \in DocIds |-> None]
  /\ calls = 0
  /\ steps = [s \in 1..MaxCalls |-> None]
  /\ losses = None
  /\ ret = NoRet
  /\ last_call = [op |-> "none", docs |-> <<>>, to |-> <<>>]
  /\ held = None

\* --------------------------------------------------------- registration
\* TransformerListener.upstream_name of a node of a model: node 0 stands for
\* every node that is no listener of this stage (another layer, or a listener
\* of another component); the listener objects of the model listen to it.
upstream_name(n) == IF n = 0 THEN "tagger" ELSE "transformer"

\* TransformerListener.__init__, called by a downstream component
NewListener(l) ==
  /\ Cardinality(made \ Range(listeners)) < MaxDetached
  /\ l \notin made
  /\ l = MaxOf(made) + 1
  /\ made' = made \cup {l}
  /\ ret' = [NoRet EXCEPT !.op = "NewListener"]
  /\ UNCHANGED <<listeners, l_batch_id, l_outputs, l_backprop, trf_data, calls,
                 steps, losses, last_call>>
  /\ UNCHANGED <<held, shim_vars, split_vars>>

\* Transformer.create_listener
create_listener ==
  /\ Len(listeners) < MaxListeners
  /\ \E l \in ListenerIds :
       /\ l \notin made
       /\ l = MaxOf(made) + 1
       /\ made' = made \cup {l}
       /\ listeners' = Append(listeners, l)
  /\ ret' = [NoRet EXCEPT !.op = "create_listener"]
  /\ UNCHANGED <<l_batch_id, l_outputs, l_backprop, trf_data, calls, steps,
                 losses, last_call>>
  /\ UNCHANGED <<held, shim_vars, split_vars>>

\* Transformer.add_listener
add_listener(l) ==
  /\ l \in made
  /\ Len(listeners) < MaxListeners
  /\ listeners' = Append(listeners, l)
  /\ ret' = [NoRet EXCEPT !.op = "add_listener"]
  /\ UNCHANGED <<made, l_batch_id, l_outputs, l_backprop, trf_data,
                 calls, steps, losses, last_call>>
  /\ UNCHANGED <<held, shim_vars, split_vars>>

\* model.walk() of a model whose nodes are `nodes`, in id order
RECURSIVE Walk(_)
Walk(nodes) ==
  IF nodes = {} THEN <<>>
  ELSE LET n == CHOOSE x \in nodes : \A y \in nodes : x <= y
       IN <<n>> \o Walk(nodes \ {n})

\* the nodes find_listeners attaches: the listeners whose upstream is this stage
Matching(walk) == SelectSeq(walk, LAMBDA n : upstream_name(n) = Name)

\* Transformer.find_listeners
find_listeners(nodes) ==
  /\ nodes \subseteq made \cup {0}
  /\ nodes # {}
  /\ Len(listeners) + Len(Matching(Walk(nodes))) <= MaxListeners
  /\ listeners' = listeners \o Matching(Walk(nodes))
  /\ ret' = [NoRet EXCEPT !.op = "find_listeners"]
  /\ UNCHANGED <<made, l_batch_id, l_outputs, l_backprop, trf_data,
                 calls, steps, losses, last_call>>
  /\ UNCHANGED <<held, shim_vars, split_vars>>

\* --------------------------------------------------------------- listener
\* the first position of a listener in the list
LastPos_first(ls, l) ==
  CHOOSE i \in 1..Len(ls) : ls[i] = l /\ \A i2 \in 1..Len(ls) : ls[i2] = l => i <= i2

\* TransformerListener.receive, for every listener of `ls` in list order: the
\* last position of a listener in the list decides what it ends up holding.
LastPos(ls, l) == MaxOf({i \in 1..Len(ls) : ls[i] = l})

\* update that passes backprop to every listener
AcceptorAt_always_backprop(i, n, s) == backprop_fn(s)

\* update that passes accumulate_gradient to every listener
AcceptorAt_never_backprop(i, n, s) == accumulate_gradient_fn(s)

\* the acceptor update passes at list position i of n
AcceptorAt(i, n, s) ==
  IF i = n THEN backprop_fn(s) ELSE accumulate_gradient_fn(s)

\* verify_inputs that raises only for a listener that never received
verify_inputs_unchecked(l, inputs) ==
  l_batch_id[l] = None /\ l_outputs[l] = None

\* TransformerListener.verify_inputs: TRUE when it raises ValueError
verify_inputs_raises(l, inputs) ==
  IF l_batch_id[l] = None /\ l_outputs[l] = None THEN TRUE
  ELSE get_batch_id(inputs) # Val(l_batch_id[l])

\* forward that verifies its inputs in both modes
forward_always_verifies(l, docs, is_train) ==
  /\ l \in made
  /\ ret' =
       IF verify_inputs_raises(l, docs)
       THEN [NoRet EXCEPT !.op = "forward", !.status = "error",
                          !.error = "ValueError", !.l = l, !.docs = docs,
                          !.is_train = is_train]
       ELSE [NoRet EXCEPT !.op = "forward", !.l = l, !.docs = docs,
                          !.is_train = is_train,
                          !.outputs = l_outputs[l],
                          !.backprop = l_backprop[l]]
  /\ held' = IF ~verify_inputs_raises(l, docs) /\ l_backprop[l] # None
             THEN Some([l |-> l, fn |-> Val(l_backprop[l])])
             ELSE held
  /\ UNCHANGED <<listeners, made, l_batch_id, l_outputs, l_backprop,
                 trf_data, calls, steps, losses, last_call>>
  /\ UNCHANGED <<shim_vars, split_vars>>

\* forward that uses up what the listener holds
forward_consumes(l, docs, is_train) ==
  /\ l \in made
  /\ ret' =
       IF is_train
       THEN IF verify_inputs_raises(l, docs)
            THEN [NoRet EXCEPT !.op = "forward", !.status = "error",
                               !.error = "ValueError", !.l = l, !.docs = docs,
                               !.is_train = TRUE]
            ELSE [NoRet EXCEPT !.op = "forward", !.l = l, !.docs = docs,
                               !.is_train = TRUE,
                               !.outputs = l_outputs[l],
                               !.backprop = l_backprop[l]]
       ELSE [NoRet EXCEPT !.op = "forward", !.l = l, !.docs = docs,
                          !.outputs =
                             IF Len(docs) = 0 THEN Some(<<Some(EmptyData)>>)
                             ELSE Some([i \in 1..Len(docs) |-> trf_data[docs[i]]]),
                          !.backprop = Some(identity_fn)]
  /\ held' = IF is_train /\ ~verify_inputs_raises(l, docs) /\ l_backprop[l] # None
             THEN Some([l |-> l, fn |-> Val(l_backprop[l])])
             ELSE held
  /\ l_batch_id' = [l_batch_id EXCEPT ![l] = None]
  /\ l_outputs' = [l_outputs EXCEPT ![l] = None]
  /\ l_backprop' = [l_backprop EXCEPT ![l] = None]
  /\ UNCHANGED <<listeners, made, trf_data, calls, steps, losses, last_call>>
  /\ UNCHANGED <<shim_vars, split_vars>>

\* forward(model, docs, is_train) of the listener
forward(l, docs, is_train) ==
  /\ l \in made
  /\ ret' =
       IF is_train
       THEN IF verify_inputs_raises(l, docs)
            THEN [NoRet EXCEPT !.op = "forward", !.status = "error",
                               !.error = "ValueError", !.l = l, !.docs = docs,
                               !.is_train = TRUE]
            ELSE [NoRet EXCEPT !.op = "forward", !.l = l, !.docs = docs,
                               !.is_train = TRUE,
                               !.outputs = l_outputs[l],
                               !.backprop = l_backprop[l]]
       ELSE [NoRet EXCEPT !.op = "forward", !.l = l, !.docs = docs,
                          !.outputs =
                             IF Len(docs) = 0 THEN Some(<<Some(EmptyData)>>)
                             ELSE Some([i \in 1..Len(docs) |-> trf_data[docs[i]]]),
                          !.backprop = Some(identity_fn)]
  /\ held' = IF is_train /\ ~verify_inputs_raises(l, docs) /\ l_backprop[l] # None
             THEN Some([l |-> l, fn |-> Val(l_backprop[l])])
             ELSE held
  /\ UNCHANGED <<listeners, made, l_batch_id, l_outputs, l_backprop,
                 trf_data, calls, steps, losses, last_call>>
  /\ UNCHANGED <<shim_vars, split_vars>>

\* receive that keeps the callback it holds when it is given none
receive_keeps_backprop(l, batch_id, outputs, backprop) ==
  [batch_id |-> Some(batch_id), outputs |-> Some(outputs),
   backprop |-> IF backprop = None THEN l_backprop[l] ELSE backprop]

\* TransformerListener.receive: the fields of a listener after the call
receive(l, batch_id, outputs, backprop) ==
  [batch_id |-> Some(batch_id), outputs |-> Some(outputs), backprop |-> backprop]

\* `for listener in ls: listener.receive(batch_id, outputs, bps[position])`:
\* the last position of a listener in the list decides what it ends up holding.
Broadcast(ls, batch_id, outputs, bps) ==
  LET got(l) == receive(l, batch_id, outputs, bps[LastPos(ls, l)])
  IN /\ l_batch_id' = [l \in ListenerIds |->
                         IF l \in Range(ls) THEN got(l).batch_id ELSE l_batch_id[l]]
     /\ l_outputs' = [l \in ListenerIds |->
                        IF l \in Range(ls) THEN got(l).outputs ELSE l_outputs[l]]
     /\ l_backprop' = [l \in ListenerIds |->
                         IF l \in Range(ls) THEN got(l).backprop ELSE l_backprop[l]]

\* ------------------------------------------------------------ Transformer
\* Transformer.set_annotations: doc._.trf_data = data for zip(docs, doc_data)
set_annotations(docs, data) ==
  [d \in DocIds |->
     IF d \in Range(docs) THEN Some(data[LastPos(docs, d)]) ELSE trf_data[d]]

\* Transformer.predict
predict(docs) ==
  /\ calls < MaxCalls
  /\ calls' = calls + 1
  /\ Broadcast(listeners, get_batch_id(docs), doc_data(calls + 1, docs),
               [i \in 1..Len(listeners) |-> None])
  /\ ret' = [NoRet EXCEPT !.op = "predict", !.docs = docs,
                          !.outputs = Some(doc_data(calls + 1, docs))]
  /\ last_call' = [op |-> "predict", docs |-> docs, to |-> listeners]
  /\ UNCHANGED <<listeners, made, trf_data, steps, losses>>
  /\ UNCHANGED <<held, shim_vars, split_vars>>

\* Transformer.pipe, one minibatch (Transformer.__call__ is the batch <<doc>>):
\* predict, then set_annotations
pipe(docs) ==
  /\ calls < MaxCalls
  /\ calls' = calls + 1
  /\ Broadcast(listeners, get_batch_id(docs), doc_data(calls + 1, docs),
               [i \in 1..Len(listeners) |-> None])
  /\ trf_data' = set_annotations(docs, doc_data(calls + 1, docs))
  /\ ret' = [NoRet EXCEPT !.op = "pipe", !.docs = docs,
                          !.outputs = Some(doc_data(calls + 1, docs))]
  /\ last_call' = [op |-> "pipe", docs |-> docs, to |-> listeners]
  /\ UNCHANGED <<listeners, made, steps, losses>>
  /\ UNCHANGED <<held, shim_vars, split_vars>>

\* a step that starts with the accumulator of the step before it
NewStep_carries(docs, outs, sgd, ls) ==
  [docs |-> docs, outs |-> outs, sgd |-> sgd, regd |-> ls,
   d_tensors |-> IF calls >= 1 THEN Val(steps[calls]).d_tensors ELSE <<>>,
   objs |-> IF calls >= 1 THEN Val(steps[calls]).objs ELSE <<>>,
   given |-> <<>>, via |-> <<>>, merged |-> <<>>,
   bp_args |-> <<>>, finish_update |-> 0]

\* The closure state of one update call: trf_full, sgd and d_tensors, the
\* gradient objects the acceptors were given (objs: as they are now, d_tensors
\* refers into them; given: as they were when passed), who invoked which
\* acceptor, after how many forward passes (via), what went into unsplit_by_doc
\* (merged) and bp_trf_full (bp_args), and the finish_update calls.
NewStep(docs, outs, sgd, ls) ==
  [docs |-> docs, outs |-> outs, sgd |-> sgd, regd |-> ls, d_tensors |-> <<>>,
   objs |-> <<>>, given |-> <<>>, via |-> <<>>, merged |-> <<>>,
   bp_args |-> <<>>, finish_update |-> 0]

\* an update that returns when there is no listener
update_never_raises(ls) == FALSE

\* self.listeners[-1] raises IndexError on an empty list
update_raises(ls) == Len(ls) = 0

\* Transformer.update
update(docs, sgd, annotate) ==
  /\ calls < MaxCalls
  /\ calls' = calls + 1
  /\ losses' = IF losses = None THEN Some(0) ELSE losses
  /\ steps' = [steps EXCEPT ![calls + 1] =
                 Some(NewStep(docs, doc_data(calls + 1, docs), sgd, listeners))]
  /\ last_call' = [op |-> "update", docs |-> docs, to |-> listeners]
  /\ IF update_raises(listeners)
     THEN /\ ret' = [NoRet EXCEPT !.op = "update", !.status = "error",
                                  !.error = "IndexError", !.docs = docs]
          /\ UNCHANGED <<l_batch_id, l_outputs, l_backprop, trf_data>>
     ELSE /\ Broadcast(listeners, get_batch_id(docs), doc_data(calls + 1, docs),
                       [i \in 1..Len(listeners) |->
                          Some(AcceptorAt(i, Len(listeners), calls + 1))])
          /\ trf_data' = IF annotate
                         THEN set_annotations(docs, doc_data(calls + 1, docs))
                         ELSE trf_data
          /\ ret' = [NoRet EXCEPT !.op = "update", !.docs = docs]
  /\ UNCHANGED <<listeners, made>>
  /\ UNCHANGED <<held, shim_vars, split_vars>>

\* the value of d_tensors: it holds references to the lists of arrays of the
\* gradient objects that were appended to it
DTensors(st) ==
  [i \in 1..Len(st.d_tensors) |-> st.objs[st.d_tensors[i][1]][st.d_tensors[i][2]]]

\* losses[self.name] += float((d_tensor ** 2).sum()) over all of d_trf_datas
LossOf(g) ==
  SumSeq([i \in 1..Len(g) |->
            SumSeq([j \in 1..Len(g[i]) |-> SumSquares(g[i][j])])])

\* accumulate_gradient(d_trf_datas) on the closure state st: document i of a
\* first arrival is appended (by reference), a later one is added in place
accumulate_gradient(st, g) ==
  LET k == Len(st.objs) + 1
      objs0 == Append(st.objs, g)
      n0 == Len(st.d_tensors)
      hit(o, i) == {i2 \in 1..MinOf2(n0, Len(g)) : st.d_tensors[i2] = <<o, i>>}
  IN [st EXCEPT
        !.d_tensors = [i \in 1..MaxOf2(n0, Len(g)) |->
                         IF i <= n0 THEN st.d_tensors[i] ELSE <<k, i>>],
        !.objs = [o \in 1..k |->
                    [i \in 1..Len(objs0[o]) |->
                       [j \in 1..Len(objs0[o][i]) |->
                          IF hit(o, i) = {} THEN objs0[o][i][j]
                          ELSE AddArray(objs0[o][i][j],
                                        g[CHOOSE i2 \in hit(o, i) : TRUE][j])]]],
        !.given = Append(st.given, g)]

\* a finalize that merges what it finds and leaves its own gradient out
backprop_skips_own(st, g) ==
  [st EXCEPT
     !.given = Append(st.given, g),
     !.merged = Append(st.merged, DTensors(st)),
     !.bp_args = Append(st.bp_args, unsplit_by_doc(st.outs, DTensors(st))),
     !.finish_update = IF st.sgd THEN st.finish_update + 1 ELSE st.finish_update]

\* backprop(d_trf_datas) on the closure state st
backprop(st, g) ==
  LET acc == accumulate_gradient(st, g)
  IN [acc EXCEPT
        !.merged = Append(acc.merged, DTensors(acc)),
        !.bp_args = Append(acc.bp_args, unsplit_by_doc(acc.outs, DTensors(acc))),
        !.finish_update = IF acc.sgd THEN acc.finish_update + 1
                          ELSE acc.finish_update]

\* ----------------------------------------------------------------- driver
\* acceptor invocations so far
Invoked == SumSeq([s \in 1..MaxCalls |->
                     IF steps[s] = None THEN 0 ELSE Len(Val(steps[s]).given)])

\* the gradients listener l may send back
Grads(l) == {l + k : k \in 0..(MaxGrad - 1)}

\* The driver calls the callback it holds, with a gradient of the outputs that
\* came with it. The callback may be one of an earlier update.
Invoke(v) ==
  /\ held # None
  /\ v \in Grads(Val(held).l)
  /\ Invoked < MaxInvokes
  /\ LET f == Val(held).fn
         st == Val(steps[f.step])
         g == Gradient(st.outs, v)
         who == [l |-> Val(held).l, kind |-> f.kind, at |-> calls]
         logged(x) == [x EXCEPT !.via = Append(st.via, who)]
     IN /\ losses' = Some(Val(losses) + LossOf(g))
        /\ steps' = [steps EXCEPT ![f.step] =
                       IF f.kind = "backprop" THEN Some(logged(backprop(st, g)))
                       ELSE Some(logged(accumulate_gradient(st, g)))]
  /\ UNCHANGED <<listeners, made, l_batch_id, l_outputs, l_backprop,
                 trf_data, calls, ret, last_call>>
  /\ UNCHANGED <<held, shim_vars, split_vars>>

\* ================================================================ HFShim
NumShims == 2       \* HFShim objects
MaxWeight == 2      \* distinct values of a model's weights

ShimIds == 1..NumShims

\* A Python dict is the set of its <<key, value>> items.
Keys(d) == {kv[1] : kv \in d}
Get(d, k) == (CHOOSE kv \in d : kv[1] = k)[2]

\* the keys of the msg dict of to_bytes, in insertion order
Fields == <<"config", "state", "tokenizer", "tokenizer_config", "transformer_config">>

\* transformer.config of the models at hand: the model type and the attributes
ConfigObjects ==
  {[model_type |-> "bert", attrs |-> {<<"hidden_size", "1">>}],
   [model_type |-> "gpt2", attrs |-> {<<"hidden_size", "2">>, <<"n_head", "1">>}]}

\* the tokenizer_config and transformer_config dicts at hand
TokConfigs == {{}, {<<"use_fast", "True">>}}
TrfConfigs == {{}, {<<"output_attentions", "True">>}}

\* PretrainedConfig.to_dict
to_dict(config) == config.attrs \cup {<<"model_type", config.model_type>>}

\* srsly.write_json(config_file, config_dict): the lines of config.json, by key
RECURSIVE write_json(_)
write_json(d) ==
  IF d = {} THEN <<>>
  ELSE LET kv == CHOOSE x \in d : \A y \in d : x[1] = y[1] \/ Len(x[1]) <= Len(y[1])
       IN <<kv>> \o write_json(d \ {kv})

\* AutoConfig.from_pretrained(config_file)
AutoConfig_from_pretrained(file) ==
  LET d == Range(file)
  IN [model_type |-> Get(d, "model_type"),
      attrs |-> {kv \in d : kv[1] # "model_type"}]

\* tokenizer.save_pretrained(temp_dir), read back as {x.name: x.read_bytes()}
save_pretrained(tokenizer) == tokenizer.files

\* AutoTokenizer.from_pretrained(temp_dir, **tok_config) over the files written
AutoTokenizer_from_pretrained(tok_dict, tok_config) ==
  [files |-> tok_dict, init_kwargs |-> tok_config]

\* the tokenizer files of a model type
VocabOf(model_type) == {<<"vocab.txt", model_type>>, <<"tokenizer_config.json", "{}">>}

\* AutoModel.from_config(config): freshly initialised weights (value 0)
AutoModel_from_config(config) ==
  [config |-> config,
   state_dict |-> {<<"weight", Get(config.attrs, "hidden_size"), 0>>},
   forward_kwargs |-> {}]

\* a trained model of the given configuration
Pretrained(config, w, kwargs) ==
  [config |-> config,
   state_dict |-> {<<"weight", Get(config.attrs, "hidden_size"), w>>},
   forward_kwargs |-> kwargs]

HFObjects(transformer, tokenizer, tokenizer_config, transformer_config) ==
  [transformer |-> transformer, tokenizer |-> tokenizer,
   tokenizer_config |-> tokenizer_config, transformer_config |-> transformer_config]

\* the HFObjects a shim may be constructed with: no model, or a live pair
InitialObjects ==
  {HFObjects(None, None, tc, fc) : tc \in TokConfigs, fc \in TrfConfigs}
  \cup {HFObjects(Some(Pretrained(c, w, fc)),
                  Some([files |-> VocabOf(c.model_type), init_kwargs |-> tc]), tc, fc) :
          c \in ConfigObjects, w \in 1..MaxWeight, tc \in TokConfigs, fc \in TrfConfigs}

NoShimRet == [op |-> "none", shim |-> 0, status |-> "ok", error |-> ""]

\* HFShim.__init__ of every shim: PyTorchShim keeps model.transformer as _model
ShimInit ==
  /\ hfmodel \in [ShimIds -> InitialObjects]
  /\ pt_model = [k \in ShimIds |-> hfmodel[k].transformer]
  /\ wire = None
  /\ wire_src = None
  /\ shim_ret = NoShimRet

\* the shims while the pipeline component is exercised
ShimIdle ==
  /\ hfmodel = [k \in ShimIds |-> HFObjects(None, None, {}, {})]
  /\ pt_model = [k \in ShimIds |-> None]
  /\ wire = None
  /\ wire_src = None
  /\ shim_ret = NoShimRet

\* a writer that leaves out the items whose value is empty
msgpack_dumps_nonempty(msg) ==
  SelectSeq([i \in 1..Len(Fields) |-> <<Fields[i], msg[Fields[i]]>>],
            LAMBDA kv : kv[2] # {})

\* srsly.msgpack_dumps(msg): the items of the map, in order
msgpack_dumps(msg) == [i \in 1..Len(Fields) |-> <<Fields[i], msg[Fields[i]]>>]

\* srsly.msgpack_loads(bytes_data)
msgpack_loads(bytes) ==
  [k \in {bytes[i][1] : i \in 1..Len(bytes)} |->
     (CHOOSE kv \in Range(bytes) : kv[1] = k)[2]]

\* the msg dict of to_bytes
to_bytes_msg(hf_model, model) ==
  LET live == hf_model.transformer # None
      config == IF live THEN to_dict(Val(hf_model.transformer).config) ELSE {}
      tok_dict == IF live THEN save_pretrained(Val(hf_model.tokenizer)) ELSE {}
      weights_bytes == IF live THEN Val(model).state_dict ELSE {}
  IN [f \in Range(Fields) |->
        CASE f = "config" -> config
          [] f = "state" -> weights_bytes
          [] f = "tokenizer" -> tok_dict
          [] f = "tokenizer_config" -> hf_model.tokenizer_config
          [] f = "transformer_config" -> hf_model.transformer_config]

\* HFShim.to_bytes
to_bytes(k) ==
  /\ wire' = Some(msgpack_dumps(to_bytes_msg(hfmodel[k], pt_model[k])))
  /\ wire_src' = Some(hfmodel[k])
  /\ shim_ret' = [NoShimRet EXCEPT !.op = "to_bytes", !.shim = k]
  /\ UNCHANGED <<hfmodel, pt_model>>
  /\ UNCHANGED <<pipe_vars, split_vars>>

\* The stored artifact loses one of its fields (written by another tool, or
\* cut short): the bytes_data from_bytes may be given.
drop_field(f) ==
  /\ wire # None
  /\ \E i \in 1..Len(Val(wire)) : Val(wire)[i][1] = f
  /\ wire' = Some(SelectSeq(Val(wire), LAMBDA kv : kv[1] # f))
  /\ shim_ret' = [NoShimRet EXCEPT !.op = "drop_field"]
  /\ UNCHANGED <<hfmodel, pt_model, wire_src>>
  /\ UNCHANGED <<pipe_vars, split_vars>>

\* the fields from_bytes reads before it looks at the configuration
ReadFirst == <<"config", "tokenizer", "tokenizer_config", "transformer_config">>

\* the first of `fields` that msg lacks, or "" when it has them all
FirstMissing(msg, fields) ==
  LET missing == {i \in 1..Len(fields) : fields[i] \notin DOMAIN msg}
  IN IF missing = {} THEN ""
     ELSE fields[CHOOSE i \in missing : \A j \in missing : i <= j]

\* the two option documents change places
Reconstructed_swapped(config_dict, tok_dict, tok_config, trf_config) ==
  HFObjects(
    Some([AutoModel_from_config(AutoConfig_from_pretrained(write_json(config_dict)))
            EXCEPT !.forward_kwargs = tok_config]),
    Some(AutoTokenizer_from_pretrained(tok_dict, trf_config)),
    trf_config, tok_config)

\* HFObjects(transformer, tokenizer, tok_config, trf_config) of from_bytes, the
\* forward of the transformer bound to trf_config
Reconstructed(config_dict, tok_dict, tok_config, trf_config) ==
  HFObjects(
    Some([AutoModel_from_config(AutoConfig_from_pretrained(write_json(config_dict)))
            EXCEPT !.forward_kwargs = trf_config]),
    Some(AutoTokenizer_from_pretrained(tok_dict, tok_config)),
    tok_config, trf_config)

\* self._model.load_state_dict: TRUE when names and shapes fit the model
Fits(model, state) ==
  {<<kv[1], kv[2]>> : kv \in state} = {<<kv[1], kv[2]>> : kv \in model.state_dict}

\* HFShim.from_bytes
from_bytes(k) ==
  /\ wire # None
  /\ LET msg == msgpack_loads(Val(wire))
         raised(e) == [NoShimRet EXCEPT !.op = "from_bytes", !.shim = k,
                                        !.status = "error", !.error = e]
         done == [NoShimRet EXCEPT !.op = "from_bytes", !.shim = k]
     IN IF FirstMissing(msg, ReadFirst) # ""
        THEN /\ shim_ret' = raised("KeyError")
             /\ UNCHANGED <<hfmodel, pt_model>>
        ELSE IF msg["config"] = {}
        THEN /\ shim_ret' = done
             /\ UNCHANGED <<hfmodel, pt_model>>
        ELSE LET new == Reconstructed(msg["config"], msg["tokenizer"],
                                      msg["tokenizer_config"], msg["transformer_config"])
                 loaded == [Val(new.transformer) EXCEPT !.state_dict = msg["state"]]
             IN IF "state" \notin DOMAIN msg
                THEN /\ hfmodel' = [hfmodel EXCEPT ![k] = new]
                     /\ pt_model' = [pt_model EXCEPT ![k] = new.transformer]
                     /\ shim_ret' = raised("KeyError")
                ELSE IF ~Fits(Val(new.transformer), msg["state"])
                THEN /\ hfmodel' = [hfmodel EXCEPT ![k] = new]
                     /\ pt_model' = [pt_model EXCEPT ![k] = new.transformer]
                     /\ shim_ret' = raised("RuntimeError")
                ELSE /\ hfmodel' = [hfmodel EXCEPT ![k] =
                                      [new EXCEPT !.transformer = Some(loaded)]]
                     /\ pt_model' = [pt_model EXCEPT ![k] = Some(loaded)]
                     /\ shim_ret' = done
  /\ UNCHANGED <<wire, wire_src>>
  /\ UNCHANGED <<pipe_vars, split_vars>>

\* ===================================================== split-trf-batch
MaxSeed == 6        \* distinct contents of a batch's tensors

\* padded rows of the batch tensors for `docs`
Rows(docs) == MaxOf({Wp(docs[i]) : i \in 1..Len(docs)})

\* The tensors of a FullTransformerBatch over `docs`: per tensor, per document,
\* per row (padding rows included) one value, none of them zero.
BatchTensors(docs, v) ==
  [j \in 1..NTensors |->
     [i \in 1..Len(docs) |-> [p \in 1..Rows(docs) |-> v * (i + p) + j]]]

\* slices that keep the padding rows
split_by_doc_padded(docs, t) ==
  IF docs = <<>> THEN <<[j \in 1..NTensors |-> <<>>]>>
  ELSE [i \in 1..Len(docs) |-> [j \in 1..NTensors |-> t[j][i]]]

\* FullTransformerBatch.split_by_doc: the tensors of every document's
\* TransformerData, cut to the document's wordpieces; one empty TransformerData
\* for no documents
split_by_doc(docs, t) ==
  IF docs = <<>> THEN <<[j \in 1..NTensors |-> <<>>]>>
  ELSE [i \in 1..Len(docs) |->
          [j \in 1..NTensors |-> [p \in 1..Wp(docs[i]) |-> t[j][i][p]]]]

NoSplitRet == [op |-> "none", is_train |-> FALSE, outputs |-> <<>>,
               given |-> <<>>, merged |-> <<>>]

\* no batch has gone through the layer
SplitIdle ==
  /\ split_full = None
  /\ split_ret = NoSplitRet

\* forward(model, trf_full, is_train) of split-trf-batch: trf_full.doc_data
\* and the callback, which keeps trf_full
split_trf_forward(docs, v, is_train) ==
  /\ split_full' = Some([docs |-> docs, tensors |-> BatchTensors(docs, v),
                         doc_data |-> doc_data(0, docs)])
  /\ split_ret' = [NoSplitRet EXCEPT !.op = "forward", !.is_train = is_train,
                     !.outputs = split_by_doc(docs, BatchTensors(docs, v))]
  /\ UNCHANGED <<pipe_vars, shim_vars>>

\* backprop(d_trf_datas) of the last forward: d_trf_datas are the outputs
\* themselves (v = 0) or a gradient of their shape
split_trf_backprop(v) ==
  /\ split_full # None
  /\ LET full == Val(split_full)
         d == IF v = 0 THEN split_by_doc(full.docs, full.tensors)
              ELSE Gradient(full.doc_data, v)
     IN split_ret' = [NoSplitRet EXCEPT !.op = "backprop", !.given = d,
                        !.merged = unsplit_by_doc(full.doc_data, d)]
  /\ UNCHANGED split_full
  /\ UNCHANGED <<pipe_vars, shim_vars>>

vars == <<pipe_vars, shim_vars, split_vars>>

\* the pipeline component before its first call; the shims hold no model
Init == PipeInit /\ ShimIdle /\ SplitIdle

\* the listeners that have received a broadcast
Received == {l \in ListenerIds : l_batch_id[l] # None}

\* The pipeline is assembled before the first batch is broadcast.
Register ==
  /\ Received = {}
  /\ \/ \E l \in ListenerIds : NewListener(l)
     \/ create_listener
     \/ \E l \in ListenerIds : add_listener(l)
     \/ \E nodes \in SUBSET (ListenerIds \cup {0}) : find_listeners(nodes)

\* The broadcast protocol: registration, prediction, update and the listeners'
\* forward in both modes.
Next ==
  \/ Register
  \/ \E docs \in Batches : predict(docs)
  \/ \E docs \in Batches : pipe(docs)
  \/ \E docs \in Batches, annotate \in BOOLEAN : update(docs, FALSE, annotate)
  \/ \E l \in ListenerIds, docs \in Batches, is_train \in BOOLEAN :
       forward(l, docs, is_train)

Spec == Init /\ [][Next]_vars

\* The training step: registration, update (with an optimizer and annotations,
\* or with neither), the listeners' training forward on the batch of the last
\* update, and the driver's calls of the acceptors.
NextTrain ==
  \/ Received = {} /\ create_listener
  \/ Received = {} /\ \E l \in ListenerIds : add_listener(l)
  \/ \E docs \in Batches, opt \in BOOLEAN : update(docs, opt, opt)
  \/ \E l \in ListenerIds : forward(l, last_call.docs, TRUE)
  \/ \E v \in 1..(NumListeners + MaxGrad) : Invoke(v)

SpecTrain == Init /\ [][NextTrain]_vars

\* Serialisation: shims constructed with or without a model, their to_bytes and
\* from_bytes, and artifacts that lost a field.
InitShim == PipeInit /\ ShimInit /\ SplitIdle

NextShim ==
  \/ \E k \in ShimIds : to_bytes(k)
  \/ \E k \in ShimIds : from_bytes(k)
  \/ \E f \in Range(Fields) : drop_field(f)

SpecShim == InitShim /\ [][NextShim]_vars

\* The split-trf-batch layer: batches of every content go through forward, and
\* the callback is given the slices back or a gradient.
NextSplit ==
  \/ \E docs \in Batches, v \in 1..MaxSeed, is_train \in BOOLEAN :
       split_trf_forward(docs, v, is_train)
  \/ \E v \in 0..(NumListeners + MaxGrad) : split_trf_backprop(v)

SpecSplit == Init /\ [][NextSplit]_vars

\* ================================================================= claims
\* the state right after a listener's forward in training mode / otherwise
ConsumedTraining == ret.op = "forward" /\ ret.is_train
ConsumedPredicting == ret.op = "forward" /\ ~ret.is_train

\* listener l has received a broadcast: it was attached when a forward pass of
\* the encoder was broadcast
HasReceived(l) == l \in Range(last_call.to)

\* all token identities of a batch, in order
RECURSIVE AllTokens(_)
AllTokens(docs) ==
  IF docs = <<>> THEN <<>> ELSE Tokens(Head(docs)) \o AllTokens(Tail(docs))

\* C1: a training-mode forward of a listener raises when the listener never
\* received a broadcast or when the fingerprint of the documents differs from
\* the one of the last broadcast; otherwise it returns the listener's stored
\* outputs and stored callback.
C1_TrainingConsume ==
  ConsumedTraining =>
    IF ~HasReceived(ret.l)
       \/ get_batch_id(ret.docs) # get_batch_id(last_call.docs)
    THEN ret.status = "error"
    ELSE /\ ret.status = "ok"
         /\ ret.outputs = l_outputs[ret.l]
         /\ ret.backprop = l_backprop[ret.l]
         /\ ret.outputs = Some(doc_data(calls, last_call.docs))

\* a listener that received an update's broadcast returned outputs and callback
C1_Witness ==
  /\ ConsumedTraining /\ ret.status = "ok"
  /\ ret.backprop # None
  /\ ret.docs # <<>>

\* a listener that never received anything raised
C1_WitnessNever ==
  /\ ConsumedTraining /\ ret.status = "error"
  /\ ~HasReceived(ret.l)
  /\ last_call.to # <<>>

C7_PredictBroadcast ==
  ret.op = "predict" =>
    \A l \in Range(listeners) :
      /\ l_batch_id[l] = Some(SumSeq(AllTokens(ret.docs)))
      /\ l_outputs[l] = Some(doc_data(calls, ret.docs))
      /\ l_outputs[l] = ret.outputs
      /\ l_backprop[l] = None

\* predict ran after an update had left callbacks in two listeners
C7_Witness ==
  /\ ret.op = "predict"
  /\ Cardinality(Range(listeners)) >= 2
  /\ calls = 2 /\ steps[1] # None
  /\ Val(steps[1]).regd = listeners
  /\ \A l \in Range(listeners) : l_backprop[l] = None

\* C8: outside training, forward never raises and returns each document's own
\* doc._.trf_data in document order, or one empty TransformerData for an empty
\* batch, whatever the listener holds.
C8_PredictConsume ==
  ConsumedPredicting =>
    /\ ret.status = "ok"
    /\ ret.outputs =
         Some(IF ret.docs = <<>> THEN <<Some(EmptyData)>>
              ELSE [i \in 1..Len(ret.docs) |-> trf_data[ret.docs[i]]])

\* a listener holding another batch's fingerprint and a callback returned the
\* documents' cached outputs
C8_Witness ==
  /\ ConsumedPredicting /\ ret.status = "ok"
  /\ HasReceived(ret.l) /\ l_backprop[ret.l] # None
  /\ get_batch_id(ret.docs) # Val(l_batch_id[ret.l])
  /\ Len(ret.docs) = 2
  /\ \A i \in 1..Len(ret.docs) : trf_data[ret.docs[i]] # None

\* a listener that never received returned the single empty output
C8_WitnessEmpty ==
  /\ ConsumedPredicting /\ ret.status = "ok"
  /\ ~HasReceived(ret.l)
  /\ ret.docs = <<>>

\* ------------------------------------------------------ the training step
Steps == {s \in 1..MaxCalls : steps[s] # None}
StepOf(s) == Val(steps[s])

\* the listeners whose acceptor the driver invoked in a step, in order
ViaListeners(st) == [i \in 1..Len(st.via) |-> st.via[i].l]
Count(st, kind) == Cardinality({i \in 1..Len(st.via) : st.via[i].kind = kind})
NoDup(q) == \A i, j \in 1..Len(q) : q[i] = q[j] => i = j

\* the first occurrences of the elements of q
RECURSIVE Distinct(_)
Distinct(q) ==
  IF q = <<>> THEN <<>>
  ELSE LET front == SubSeq(q, 1, Len(q) - 1)
           x == q[Len(q)]
       IN IF x \in Range(front) THEN Distinct(front)
          ELSE Append(Distinct(front), x)

C4_Original ==
  \A s \in Steps :
    LET st == StepOf(s)
        K == Len(st.regd)
    IN (K >= 1 /\ ViaListeners(st) \in {st.regd, Distinct(st.regd)}) =>
         /\ Count(st, "accumulate_gradient") = K - 1
         /\ Count(st, "backprop") = 1

\* C4 amended: with K >= 1 attached listeners, no listener attached twice, each
\* invoking its acceptor once in list order, accumulate_gradient is the acceptor
\* K-1 times and backprop once, as the last.
C4_Amended ==
  \A s \in Steps :
    LET st == StepOf(s)
        K == Len(st.regd)
    IN (K >= 1 /\ NoDup(st.regd) /\ ViaListeners(st) = st.regd) =>
         /\ Count(st, "accumulate_gradient") = K - 1
         /\ Count(st, "backprop") = 1
         /\ st.via[K].kind = "backprop"
         /\ Len(st.bp_args) = 1

\* three listeners invoked their acceptors in list order
C4_Witness ==
  \E s \in Steps :
    /\ Len(StepOf(s).regd) = 3 /\ NoDup(StepOf(s).regd)
    /\ ViaListeners(StepOf(s)) = StepOf(s).regd
    /\ Len(StepOf(s).docs) = 2

\* the sum of the gradients the acceptors of a step were given, per document,
\* tensor and row
SumGiven(st) ==
  [i \in 1..Len(st.outs) |->
     [j \in 1..NTensors |->
        [p \in 1..Wp(st.outs[i].doc) |->
           SumSeq([k \in 1..Len(st.given) |-> st.given[k][i][j][p]])]]]

\* every attached listener invoked its acceptor once, the last one last
EachOnceLastLast(st) ==
  /\ Len(st.regd) >= 1
  /\ NoDup(ViaListeners(st))
  /\ Range(ViaListeners(st)) = Range(st.regd)
  /\ st.via[Len(st.via)].l = st.regd[Len(st.regd)]

\* C5: when every attached listener has invoked its acceptor once, the last
\* listener last, what backprop passed to unsplit_by_doc is, for every document,
\* tensor and row, the sum of the gradients of all the listeners.
C5_MergedIsSum ==
  \A s \in Steps :
    EachOnceLastLast(StepOf(s)) =>
      /\ Len(StepOf(s).merged) = 1
      /\ StepOf(s).merged[1] = SumGiven(StepOf(s))
      /\ StepOf(s).bp_args[1] = unsplit_by_doc(StepOf(s).outs, SumGiven(StepOf(s)))

\* three listeners, the second one first, over a batch of two documents
C5_Witness ==
  \E s \in Steps :
    /\ EachOnceLastLast(StepOf(s))
    /\ Cardinality(Range(StepOf(s).regd)) = 3
    /\ StepOf(s).via[1].l = StepOf(s).regd[2]
    /\ Len(StepOf(s).docs) = 2
    /\ Len(StepOf(s).merged) = 1

\* C6: update with no listener attached raises; it sets no annotation, hands no
\* acceptor of that step to anyone, and the encoder's backward operation is
\* never run for that step.
C6_NoListeners ==
  /\ (ret.op = "update" /\ last_call.to = <<>>) =>
       ret.status = "error" /\ ret.error = "IndexError"
  /\ \A s \in Steps :
       StepOf(s).regd = <<>> =>
         /\ StepOf(s).bp_args = <<>>
         /\ StepOf(s).given = <<>>
         /\ \A l \in ListenerIds :
              l_backprop[l] # None => Val(l_backprop[l]).step # s
         /\ ret.backprop # None => Val(ret.backprop).step # s
         /\ \A d \in DocIds : trf_data[d] # None => Val(trf_data[d]).pass # s

\* an update without listeners failed; the next one, with a listener, ran the
\* encoder's backward operation
C6_Witness ==
  /\ Steps = {1, 2}
  /\ StepOf(1).regd = <<>>
  /\ StepOf(1).docs # <<>>
  /\ Len(StepOf(2).bp_args) = 1
  /\ \E d \in DocIds : trf_data[d] # None

\* ---------------------------------------------------------------- HFShim
\* the last call was from_bytes, and the bytes it was given are in `wire`
Decoded == shim_ret.op = "from_bytes" /\ wire # None
\* the map those bytes hold
DecodedMsg == msgpack_loads(Val(wire))
\* every field of the bundle is there
Complete == Range(Fields) \subseteq DOMAIN DecodedMsg
\* the bytes are what to_bytes made of a live pair
FromLive == Complete /\ wire_src # None /\ Val(wire_src).transformer # None

\* C9: from_bytes of a bundle whose configuration is empty never raises and
\* leaves the codec holding no live model, whatever the codec held before.
C9_EmptyConfiguration ==
  (Decoded /\ Complete /\ DecodedMsg["config"] = {}) =>
    /\ shim_ret.status = "ok"
    /\ hfmodel[shim_ret.shim].transformer = None
    /\ pt_model[shim_ret.shim] = None

\* What from_bytes does with such a bundle: it returns without raising and the
\* codec holds what it held before, model and option documents alike.
C9_EmptyConfigurationKeeps ==
  [][\A k \in ShimIds :
       (from_bytes(k) /\ FirstMissing(msgpack_loads(Val(wire)), ReadFirst) = ""
                      /\ msgpack_loads(Val(wire))["config"] = {}) =>
         /\ shim_ret'.status = "ok"
         /\ hfmodel' = hfmodel
         /\ pt_model' = pt_model]_vars

\* a codec holding a live model has decoded the bundle of a codec without one
C9_Witness ==
  /\ Decoded /\ Complete /\ DecodedMsg["config"] = {}
  /\ Val(wire_src).transformer = None
  /\ hfmodel[shim_ret.shim].transformer # None

C11_MissingFieldFails ==
  (Decoded /\ ~Complete) => shim_ret.status = "error"

\* What from_bytes does: it raises KeyError for a missing field it reads, and it
\* reads "state" only when the configuration is not empty.
C11_MissingFieldRead ==
  (Decoded /\ ~Complete) =>
    (shim_ret.status = "error" <=>
       \/ FirstMissing(DecodedMsg, ReadFirst) # ""
       \/ DecodedMsg["config"] # {})

\* from_bytes has returned normally from a bundle without its "state" field
C11_Witness ==
  /\ Decoded /\ ~Complete
  /\ "state" \notin DOMAIN DecodedMsg
  /\ shim_ret.status = "ok"

\* ------------------------------------------------------ split-trf-batch
\* the callback of the layer was given the slices of the batch's own tensors
RoundTrip ==
  /\ split_ret.op = "backprop"
  /\ split_ret.given = split_by_doc(Val(split_full).docs, Val(split_full).tensors)

\* C12: merging the per-document slices of a batch-shaped tensor gives the
\* tensor back, with zero on the padding rows, which the slices left out.
C12_MergeSplit ==
  RoundTrip =>
    LET docs == Val(split_full).docs
        g == Val(split_full).tensors
        m == split_ret.merged
    IN /\ DOMAIN m = 1..NTensors
       /\ \A j \in 1..NTensors :
            IF docs = <<>> THEN \A i \in DOMAIN m[j] : m[j][i] = <<>>
            ELSE m[j] = [i \in 1..Len(docs) |->
                           [p \in 1..Rows(docs) |->
                              IF p <= Wp(docs[i]) THEN g[j][i][p] ELSE 0]]

\* a batch of two documents of different length has gone there and back
C12_Witness ==
  /\ RoundTrip
  /\ Len(Val(split_full).docs) = 2
  /\ \E i \in 1..2 : Wp(Val(split_full).docs[i]) < Rows(Val(split_full).docs)

\* C13: every artifact to_bytes returns, for a live encoder and for none, is a
\* map whose top-level keys are exactly config, state, tokenizer,
\* tokenizer_config and transformer_config.
C13_ArtifactKeys ==
  shim_ret.op = "to_bytes" =>
    /\ wire # None
    /\ Len(Val(wire)) = 5
    /\ DOMAIN msgpack_loads(Val(wire)) =
         {"config", "state", "tokenizer", "tokenizer_config", "transformer_config"}

\* to_bytes has returned the artifact of a shim that holds no model
C13_Witness ==
  /\ shim_ret.op = "to_bytes"
  /\ hfmodel[shim_ret.shim].transformer = None

\* to_bytes has returned the artifact of a shim that holds a live model
C13_WitnessLive ==
  /\ shim_ret.op = "to_bytes"
  /\ hfmodel[shim_ret.shim].transformer # None

\* ------------------------------------------------------- order of acceptors
\* the step has run its finalize acceptor (backprop) at least once
Finalized(st) == Len(st.merged) >= 1

\* C14: within one training step, once the finalize acceptor has run nothing
\* accumulates any more: the accumulator stays what finalize merged.
C14_FinalizeLast ==
  \A s \in Steps :
    Finalized(StepOf(s)) => DTensors(StepOf(s)) = StepOf(s).merged[1]

\* What the closures do: every invocation, the accumulate acceptor after
\* finalize included, adds its gradient to the accumulator.
C14_AlwaysAccumulates ==
  \A s \in Steps :
    LET st == StepOf(s)
    IN /\ Len(st.given) = Len(st.via)
       /\ st.given # <<>> => DTensors(st) = SumGiven(st)

\* an accumulate acceptor has run after the finalize acceptor of its step
C14_Witness ==
  \E s \in Steps :
    LET st == StepOf(s)
    IN /\ Len(st.via) = 2
       /\ st.via[1].kind = "backprop"
       /\ st.via[2].kind = "accumulate_gradient"
       /\ DTensors(st) # st.merged[1]

\* C15: every update starts its step with an empty accumulator: a step's
\* accumulator, and what its finalize merges, holds the gradients given to the
\* acceptors of that step and nothing else, whatever was accumulated in earlier
\* steps and whenever the acceptors of earlier steps are invoked.
C15_FreshAccumulator ==
  \A s \in Steps :
    LET st == StepOf(s)
        n == Len(st.via)
    IN /\ Len(st.given) = n
       /\ n = 0 => (st.d_tensors = <<>> /\ st.merged = <<>>)
       /\ n > 0 => DTensors(st) = SumGiven(st)
       /\ (n > 0 /\ st.via[n].kind = "backprop") =>
            /\ st.merged[Len(st.merged)] = SumGiven(st)
            /\ st.bp_args[Len(st.bp_args)] = unsplit_by_doc(st.outs, SumGiven(st))

\* an acceptor of an earlier step was invoked after a later update had begun
\* its step, and the later step has been finalized
C15_Witness ==
  \E s1, s2 \in Steps :
    /\ s1 < s2
    /\ \E i \in 1..Len(StepOf(s1).via) : StepOf(s1).via[i].at >= s2
    /\ StepOf(s1).docs # <<>>
    /\ Finalized(StepOf(s2))

\* ------------------------------------------------------------ fingerprint
\* how often x occurs in q
Occurs(q, x) == Cardinality({i \in 1..Len(q) : q[i] = x})
\* the same token identities, in another order
Reordered(a, b) ==
  /\ a # b
  /\ Len(a) = Len(b)
  /\ \A x \in Range(a) \cup Range(b) : Occurs(a, x) = Occurs(b, x)

\* C16: get_batch_id is order-sensitive: the batch a listener is asked to
\* consume and the batch of the last forward pass, when they hold the same token
\* identities in a different order, have different fingerprints.
C16_OrderSensitive ==
  (ConsumedTraining /\ Reordered(AllTokens(ret.docs), AllTokens(last_call.docs))) =>
    get_batch_id(ret.docs) # get_batch_id(last_call.docs)

\* What get_batch_id is: the sum of the token identities, the same for every
\* order of the same tokens.
C16_OrderBlind ==
  (ConsumedTraining /\ Reordered(AllTokens(ret.docs), AllTokens(last_call.docs))) =>
    /\ get_batch_id(ret.docs) = get_batch_id(last_call.docs)
    /\ HasReceived(ret.l) => ret.status = "ok"

\* a listener has accepted a batch whose tokens are those it was sent, reordered
C16_Witness ==
  /\ ConsumedTraining /\ HasReceived(ret.l)
  /\ Reordered(AllTokens(ret.docs), AllTokens(last_call.docs))
  /\ ret.status = "ok"

\* ---------------------------------------------------------- early finalize
\* the sum of the gradients given to those acceptor invocations of a step whose
\* position in the order of invocation is in `at`
SumGivenAt(st, at) ==
  [i \in 1..Len(st.outs) |->
     [j \in 1..NTensors |->
        [p \in 1..Wp(st.outs[i].doc) |->
           SumSeq([k \in 1..Len(st.given) |->
                     IF k \in at THEN st.given[k][i][j][p] ELSE 0])]]]

\* the positions of the finalize invocations of a step, and the k-th of them
FinalizeAt(st) == {i \in 1..Len(st.via) : st.via[i].kind = "backprop"}
KthFinalize(st, k) ==
  CHOOSE i \in FinalizeAt(st) : Cardinality({x \in FinalizeAt(st) : x <= i}) = k

\* finalize was first invoked before some other attached listener had invoked
\* its acceptor
EarlyFinalize(st) ==
  /\ FinalizeAt(st) # {}
  /\ \E l \in Range(st.regd) :
       \A i \in 1..KthFinalize(st, 1) : st.via[i].l # l

C18_NeverMutated ==
  \A s \in Steps : StepOf(s).objs = StepOf(s).given

\* What the closures do: the tensors list of a document's first gradient is the
\* accumulator itself and grows by every later gradient; the later gradient
\* objects stay as they were passed.
C18_FirstIsAccumulator ==
  \A s \in Steps :
    LET st == StepOf(s)
    IN \A o \in 1..Len(st.objs) : \A i \in 1..Len(st.objs[o]) :
         st.objs[o][i] = IF \E i2 \in 1..Len(st.d_tensors) : st.d_tensors[i2] = <<o, i>>
                         THEN SumGiven(st)[i]
                         ELSE st.given[o][i]

\* the gradient of the first invocation no longer has the value it was passed with
C18_Witness ==
  \E s \in Steps :
    /\ Len(StepOf(s).given) >= 2
    /\ StepOf(s).objs[1] # StepOf(s).given[1]
    /\ StepOf(s).objs[2] = StepOf(s).given[2]

\* -------------------------------------------------------- after an update
\* C19: after an update that returned normally, whatever the listener list
\* (a listener may be in it several times), every registered listener holds the
\* fingerprint and the outputs of that update, the listener at the last position
\* holds the finalize acceptor, every other listener the accumulate acceptor of
\* the same step.
C19_AfterUpdate ==
  (ret.op = "update" /\ ret.status = "ok") =>
    \A l \in Range(listeners) :
      /\ l_batch_id[l] = Some(SumSeq(AllTokens(ret.docs)))
      /\ l_outputs[l] = Some(doc_data(calls, ret.docs))
      /\ l_backprop[l] = IF l = listeners[Len(listeners)]
                         THEN Some(backprop_fn(calls))
                         ELSE Some(accumulate_gradient_fn(calls))

\* an update has returned with two listeners registered, the last one twice
C19_Witness ==
  /\ ret.op = "update" /\ ret.status = "ok"
  /\ Len(listeners) = 3
  /\ listeners[1] = listeners[3]
  /\ listeners[2] # listeners[3]

\* ------------------------------------------------------------ frame of forward
\* C20: forward of a listener, in either mode and whether it returns or
\* raises, leaves the listener's _batch_id, _outputs and _backprop as they
\* were, so a training forward that raised for a wrong batch is followed by one
\* that returns the stored outputs when called with the right batch.
C20_OnlyReceive ==
  [][ret'.op = "forward" =>
       /\ l_batch_id' = l_batch_id
       /\ l_outputs' = l_outputs
       /\ l_backprop' = l_backprop
       /\ (/\ ret.op = "forward" /\ ret.is_train /\ ret.status = "error"
           /\ HasReceived(ret.l)
           /\ ret'.l = ret.l /\ ret'.is_train /\ ret'.docs = last_call.docs) =>
            /\ ret'.status = "ok"
            /\ ret'.outputs = Some(doc_data(calls, last_call.docs))]_vars

\* a training forward has raised for a listener that holds a received batch
C20_Witness ==
  /\ ConsumedTraining /\ ret.status = "error"
  /\ HasReceived(ret.l)
  /\ l_batch_id[ret.l] = Some(get_batch_id(last_call.docs))
  /\ l_outputs[ret.l] = Some(doc_data(calls, last_call.docs))

====
